---------------------------- MODULE Spec2Model ----------------------------
(***************************************************************************)
(* Mother Earth Radio plugin (class MotherEarthRadio, v1.4): the live      *)
(* metadata pipeline.  The model follows the first revision held in        *)
(* src/unnamed/part_000 (lines 1-832): the SSE connection manager          *)
(* (startSSE / connectSSE / scheduleSSEReconnect / stopSSE), the envelope  *)
(* decoder (handleSSEMessage / processNowPlayingData), the delayed         *)
(* application of metadata (updateMetadata) and the playback session       *)
(* (clearAddPlayTrack / stop / pause / resume).                            *)
(*                                                                         *)
(* Strings that the code takes apart (URIs) are sequences of atoms, so     *)
(* that split('/') and includes(needle) are computed, not assumed.         *)
(***************************************************************************)
EXTENDS Integers, Sequences, FiniteSets, Bags, TLC

NULL == "null"
UNDEFINED == "undefined"

(***************************************************************************)
(* Program constants.                                                      *)
(***************************************************************************)
SSE_RECONNECT_DELAY_MS == 3000
SSE_MAX_RECONNECT_ATTEMPTS == 10
HIGH_LATENCY_DELAY_MS == 2000

LOGO == "/albumart?sourceicon=music_service/motherearthradio/motherearthlogo.svg"

(***************************************************************************)
(* Bounds of the model.                                                    *)
(***************************************************************************)
MaxOrphans == 2       \* unreferenced requests that can still deliver a callback
MaxTimers == 1        \* unreferenced reconnect timers armed together
MaxToasts == 12       \* error toasts counted within one streak
MaxFailures == 12     \* failure callbacks counted within one streak
SessionOrphans == 0   \* MaxOrphans of the session specification
SessionTimers == 0    \* MaxTimers of the session specification
SessionFailures == 1  \* MaxFailures of the session specification
SessionPending == 1   \* metadata delay timers armed together
SessionOps == 1       \* clearAddPlayTrack transport chains in flight together

(***************************************************************************)
(* The channel registry (constructor).  this.channels is a plain object    *)
(* literal: a lookup by a key of Object.prototype ("constructor") yields   *)
(* an inherited, truthy value that has a name but no streams.              *)
(***************************************************************************)
channels ==
  [ radio |->
      [ name |-> "Radio", shortcode |-> <<"motherearth">>,
        streams |->
          [ flac192 |-> "https://motherearth.streamserver24.com/listen/motherearth/motherearth",
            flac96 |-> "https://motherearth.streamserver24.com/listen/motherearth/motherearth.flac-lo",
            aac |-> "https://motherearth.streamserver24.com/listen/motherearth/motherearth.aac" ] ],
    klassik |->
      [ name |-> "Klassik", shortcode |-> <<"motherearth", "_klassik">>,
        streams |->
          [ flac192 |-> "https://motherearth.streamserver24.com/listen/motherearth_klassik/motherearth.klassik",
            flac96 |-> "https://motherearth.streamserver24.com/listen/motherearth_klassik/motherearth.klassik.flac-lo",
            aac |-> "https://motherearth.streamserver24.com/listen/motherearth_klassik/motherearth.klassik.aac" ] ],
    instrumental |->
      [ name |-> "Instrumental", shortcode |-> <<"motherearth", "_instrumental">>,
        streams |->
          [ flac192 |-> "https://motherearth.streamserver24.com/listen/motherearth_instrumental/motherearth.instrumental",
            flac96 |-> "https://motherearth.streamserver24.com/listen/motherearth_instrumental/motherearth.instrumental.flac-lo",
            aac |-> "https://motherearth.streamserver24.com/listen/motherearth_instrumental/motherearth.instrumental.aac" ] ],
    jazz |->
      [ name |-> "Jazz", shortcode |-> <<"motherearth", "_jazz">>,
        streams |->
          [ flac192 |-> "https://motherearth.streamserver24.com/listen/motherearth_jazz/motherearth.jazz",
            flac96 |-> "https://motherearth.streamserver24.com/listen/motherearth_jazz/motherearth.jazz.flac-lo",
            aac |-> "https://motherearth.streamserver24.com/listen/motherearth_jazz/motherearth.jazz.aac" ] ] ]

\* Object.entries(this.channels): insertion order of the literal.
channelOrder == <<"radio", "klassik", "instrumental", "jazz">>

ChannelKeys == DOMAIN channels
QualityTiers == {"flac192", "flac96", "aac"}

\* Names every object inherits from Object.prototype (one representative).
ProtoKeys == {"constructor"}
ProtoValue == [name |-> "Object"]

\* this.channels[key] is truthy
hasChannel(key) == key \in ChannelKeys \cup ProtoKeys

\* the value this.channels[key] has a streams table of its own
hasStreams(key) == key \in ChannelKeys

\* channel.name of a truthy this.channels[key]
channelName(key) == IF key \in ChannelKeys THEN channels[key].name ELSE ProtoValue.name

\* channel.streams[quality]: own property, inherited one, or undefined.
streamLookup(streams, quality) ==
  IF quality \in DOMAIN streams THEN streams[quality]
  ELSE IF quality \in ProtoKeys THEN "[Function]"
  ELSE UNDEFINED

\* reading a property of undefined throws
TypeError == "TypeError"

\* getStreamUrl with the quality ignored (a plausible slip).
getStreamUrlAlwaysDefault(channelKey, quality) ==
  IF ~hasChannel(channelKey) THEN NULL
  ELSE IF ~hasStreams(channelKey) THEN TypeError
  ELSE channels[channelKey].streams.flac192

\* getStreamUrl(channelKey, quality)
getStreamUrl(channelKey, quality) ==
  IF ~hasChannel(channelKey) THEN NULL
  ELSE IF ~hasStreams(channelKey) THEN TypeError
  ELSE LET s == streamLookup(channels[channelKey].streams, quality) IN
       IF s # UNDEFINED THEN s ELSE channels[channelKey].streams.flac192

getQualityLabel(quality) ==
  CASE quality = "flac192" -> "FLAC 192kHz/24bit"
    [] quality = "flac96" -> "FLAC 96kHz/24bit"
    [] quality = "aac" -> "AAC 96kHz"
    [] OTHER -> quality

getSampleRate(quality) ==
  CASE quality = "flac192" -> "192 kHz"
    [] quality = "flac96" -> "96 kHz"
    [] quality = "aac" -> "96 kHz"
    [] OTHER -> ""

getBitDepth(quality) ==
  CASE quality = "flac192" -> "24 bit"
    [] quality = "flac96" -> "24 bit"
    [] OTHER -> ""

(***************************************************************************)
(* URIs as sequences of atoms.  "/" is the separator atom; the service     *)
(* name 'motherearthradio' is the two atoms "motherearth", "radio", so     *)
(* that it includes the shortcode 'motherearth' as the JavaScript string   *)
(* does.  The empty sequence is the falsy uri (null, undefined or '').      *)
(***************************************************************************)
SERVICE == <<"motherearth", "radio">>

RECURSIVE splitFrom(_, _, _)
splitFrom(s, i, cur) ==
  IF i > Len(s) THEN <<cur>>
  ELSE IF s[i] = "/" THEN <<cur>> \o splitFrom(s, i + 1, <<>>)
  ELSE splitFrom(s, i + 1, Append(cur, s[i]))

\* uri.split('/')
split(uri) == splitFrom(uri, 1, <<>>)

\* uri.includes(needle)
includes(uri, needle) ==
  \E i \in 1..(Len(uri) - Len(needle) + 1) :
    SubSeq(uri, i, i + Len(needle) - 1) = needle

\* A part compared with a property name: one atom is that name.
partKey(part) == IF Len(part) = 1 THEN part[1] ELSE UNDEFINED

RECURSIVE firstShortcode(_, _)
firstShortcode(uri, i) ==
  IF i > Len(channelOrder) THEN "radio"
  ELSE IF includes(uri, channels[channelOrder[i]].shortcode) THEN channelOrder[i]
  ELSE firstShortcode(uri, i + 1)

\* getChannelFromUri(uri)
getChannelFromUri(uri) ==
  IF uri = <<>> THEN "radio"
  ELSE LET parts == split(uri) IN
       IF /\ parts[1] = SERVICE
          /\ Len(parts) >= 2
          /\ hasChannel(partKey(parts[2]))
       THEN partKey(parts[2])
       ELSE firstShortcode(uri, 1)

\* getQualityFromUri(uri)
getQualityFromUri(uri) ==
  IF uri = <<>> THEN "flac192"
  ELSE LET parts == split(uri) IN
       IF /\ parts[1] = SERVICE
          /\ Len(parts) >= 3
          /\ partKey(parts[3]) \in QualityTiers
       THEN partKey(parts[3])
       ELSE IF includes(uri, <<".flac-lo">>) THEN "flac96"
       ELSE IF includes(uri, <<".aac">>) THEN "aac"
       ELSE "flac192"

\* 'motherearthradio/<key>/<quality>' as browseRoot builds it.
serviceUri(key, quality) == SERVICE \o <<"/", key, "/", quality>>

(***************************************************************************)
(* State.                                                                  *)
(*                                                                         *)
(* A request is [chan, phase, buffer]: chan is the channelKey its          *)
(* callbacks close over, buffer the response handler's rolling buffer;     *)
(* phase is                                                                *)
(*   "connecting"  https.request made, no response yet                     *)
(*   "streaming"   200 received, data/end/error listeners attached         *)
(*   "rejected"    non-200 response handled (the socket can still fail)    *)
(*   "failing"     response 'error' handled (request 'error' can follow)   *)
(*   "destroyed"   destroy() called; Node reports it with a late 'error'   *)
(*   "dead"        no callback will come any more                          *)
(* sseRequest holds the referenced request (phase "null" when the field    *)
(* is null); orphanRequests holds every other request that can still      *)
(* deliver a callback.  A reconnect timer is [chan, st, delay] with st     *)
(* "armed" or "fired" ("null": the field is null); orphanTimers are armed  *)
(* timers that sseReconnectTimer no longer references.                     *)
(***************************************************************************)
VARIABLES
  started,               \* onStart has run
  config,                \* persisted settings: [apiDelay, highLatencyMode]
  metadataDelay,         \* this.metadataDelay
  highLatencyMode,       \* this.highLatencyMode
  state,                 \* this.state, as last pushed with servicePushState
  currentUri,            \* this.currentUri
  currentChannel,        \* this.currentChannel
  currentQuality,        \* this.currentQuality
  sseRequest,            \* this.sseRequest
  sseReconnectAttempts,  \* this.sseReconnectAttempts
  sseReconnectTimer,     \* this.sseReconnectTimer
  orphanRequests,        \* bag of requests not referenced by this.sseRequest
  orphanTimers,          \* bag of channel keys of armed, unreferenced timers
  pending,               \* bag of metadata events waiting in setTimeout
  ops,                   \* bag of clearAddPlayTrack promise chains in flight
  result,                \* how the last API call returned or settled
  streak,                \* history: failures and toasts since the last start/connect
  hist,                  \* history: what was published since the last play()
  arg,                   \* the arguments of a helper called on its own
  ret                    \* what that helper returned

cmVars == <<sseRequest, sseReconnectAttempts, sseReconnectTimer, orphanRequests,
            orphanTimers, streak>>
sessionVars == <<state, currentUri, currentChannel, currentQuality, pending, ops,
                 result, hist>>
configVars == <<started, config, metadataDelay, highLatencyMode>>
helperVars == <<arg, ret>>
vars == <<cmVars, sessionVars, configVars, helperVars>>

NoRequest == [chan |-> NULL, phase |-> "null", buffer |-> <<>>]
NoTimer == [chan |-> NULL, st |-> "null", delay |-> 0]
NoStreak == [failures |-> 0, toasts |-> 0]

\* The connection manager's fields as one value, for the methods below.
CM ==
  [ req |-> sseRequest, attempts |-> sseReconnectAttempts, tmr |-> sseReconnectTimer,
    orph |-> orphanRequests, otmr |-> orphanTimers, streak |-> streak ]

SetCM(c) ==
  /\ sseRequest' = c.req
  /\ sseReconnectAttempts' = c.attempts
  /\ sseReconnectTimer' = c.tmr
  /\ orphanRequests' = c.orph
  /\ orphanTimers' = c.otmr
  /\ streak' = c.streak

One(x) == SetToBag({x})
CanCall(phase) == phase \in {"connecting", "streaming", "rejected", "failing", "destroyed"}
Active(phase) == phase \in {"connecting", "streaming"}

\* stopSSE() that forgets to clear the reconnect timer.
stopSSEKeepTimer(c, late) ==
  [ c EXCEPT
      !.orph = IF CanCall(c.req.phase) /\ late
               THEN @ (+) One([c.req EXCEPT !.phase = "destroyed"]) ELSE @,
      !.req = NoRequest,
      !.attempts = 0,
      !.streak = NoStreak ]

\* stopSSE(); late: Node will report the destroy() to the request's
\* listeners with an 'error' event (it does for a request in flight,
\* depending on its version and on how far the request got)
stopSSE(c, late) ==
  [ c EXCEPT
      \* clearTimeout(this.sseReconnectTimer); this.sseReconnectTimer = null
      !.tmr = NoTimer,
      \* this.sseRequest.destroy(); this.sseRequest = null
      !.orph = IF CanCall(c.req.phase) /\ late
               THEN @ (+) One([c.req EXCEPT !.phase = "destroyed"]) ELSE @,
      !.req = NoRequest,
      !.attempts = 0,
      !.streak = NoStreak ]

\* connectSSE that starts counting afresh on every retry.
connectSSEResetsAttempts(c, chan) ==
  [ c EXCEPT
      !.orph = IF CanCall(c.req.phase) THEN @ (+) One(c.req) ELSE @,
      !.req = [chan |-> chan, phase |-> "connecting", buffer |-> <<>>],
      !.attempts = 0 ]

\* connectSSE(sseUrl, channelKey): this.sseRequest = https.request(...)
connectSSE(c, chan) ==
  [ c EXCEPT
      !.orph = IF CanCall(c.req.phase) THEN @ (+) One(c.req) ELSE @,
      !.req = [chan |-> chan, phase |-> "connecting", buffer |-> <<>>] ]

\* startSSE that connects without tearing the previous connection down.
startSSENoTeardown(c, channelKey, late) ==
  IF ~hasChannel(channelKey) THEN stopSSE(c, late) ELSE connectSSE(c, channelKey)

\* startSSE(channelKey)
startSSE(c, channelKey, late) ==
  LET c1 == stopSSE(c, late) IN
  IF ~hasChannel(channelKey) THEN c1 ELSE connectSSE(c1, channelKey)

\* scheduleSSEReconnect with the limit test off by one (> for >=).
scheduleSSEReconnectOffByOne(c, chan) ==
  IF c.attempts > SSE_MAX_RECONNECT_ATTEMPTS
  THEN [ c EXCEPT !.streak.failures = @ + 1, !.streak.toasts = @ + 1 ]
  ELSE [ c EXCEPT
           !.attempts = @ + 1,
           !.otmr = IF c.tmr.st = "armed" THEN @ (+) One(c.tmr.chan) ELSE @,
           !.tmr = [chan |-> chan, st |-> "armed",
                    delay |-> SSE_RECONNECT_DELAY_MS * (c.attempts + 1)],
           !.streak.failures = @ + 1 ]

\* scheduleSSEReconnect that gives up one attempt early.
scheduleSSEReconnectEarlyToast(c, chan) ==
  IF c.attempts >= SSE_MAX_RECONNECT_ATTEMPTS - 1
  THEN [ c EXCEPT !.streak.failures = @ + 1, !.streak.toasts = @ + 1 ]
  ELSE [ c EXCEPT
           !.attempts = @ + 1,
           !.otmr = IF c.tmr.st = "armed" THEN @ (+) One(c.tmr.chan) ELSE @,
           !.tmr = [chan |-> chan, st |-> "armed",
                    delay |-> SSE_RECONNECT_DELAY_MS * (c.attempts + 1)],
           !.streak.failures = @ + 1 ]

\* scheduleSSEReconnect with a delay that doubles from one attempt to the next.
RECURSIVE Pow2(_)
Pow2(n) == IF n = 0 THEN 1 ELSE 2 * Pow2(n - 1)

scheduleSSEReconnectExponential(c, chan) ==
  IF c.attempts >= SSE_MAX_RECONNECT_ATTEMPTS
  THEN [ c EXCEPT !.streak.failures = @ + 1, !.streak.toasts = @ + 1 ]
  ELSE [ c EXCEPT
           !.attempts = @ + 1,
           !.otmr = IF c.tmr.st = "armed" THEN @ (+) One(c.tmr.chan) ELSE @,
           !.tmr = [chan |-> chan, st |-> "armed",
                    delay |-> SSE_RECONNECT_DELAY_MS * Pow2(c.attempts)],
           !.streak.failures = @ + 1 ]

\* scheduleSSEReconnect that never gives up: at the limit it goes on
\* retrying with the longest delay.
scheduleSSEReconnectNeverGivesUp(c, chan) ==
  LET n == IF c.attempts >= SSE_MAX_RECONNECT_ATTEMPTS THEN c.attempts
           ELSE c.attempts + 1
  IN [ c EXCEPT
         !.attempts = n,
         !.otmr = IF c.tmr.st = "armed" THEN @ (+) One(c.tmr.chan) ELSE @,
         !.tmr = [chan |-> chan, st |-> "armed", delay |-> SSE_RECONNECT_DELAY_MS * n],
         !.streak.failures = @ + 1 ]

\* scheduleSSEReconnect(sseUrl, channelKey)
scheduleSSEReconnect(c, chan) ==
  IF c.attempts >= SSE_MAX_RECONNECT_ATTEMPTS
  THEN \* this.errorToast('ERROR_STREAM_SERVER'); return
       [ c EXCEPT !.streak.failures = @ + 1, !.streak.toasts = @ + 1 ]
  ELSE [ c EXCEPT
           !.attempts = @ + 1,
           \* the timer referenced before stays armed, unreferenced
           !.otmr = IF c.tmr.st = "armed" THEN @ (+) One(c.tmr.chan) ELSE @,
           !.tmr = [chan |-> chan, st |-> "armed",
                    delay |-> SSE_RECONNECT_DELAY_MS * (c.attempts + 1)],
           !.streak.failures = @ + 1 ]

\* Bounds of a specification: B = [orph, otmr, fail, ops, pend].
Fits(B, c) ==
  /\ BagCardinality(c.orph) <= B.orph
  /\ BagCardinality(c.otmr) <= B.otmr
  /\ c.streak.failures <= B.fail
  /\ c.streak.toasts <= MaxToasts

\* The requests that exist: <<TRUE, r>> is the referenced one.
Slots == {<<TRUE, sseRequest>>} \cup {<<FALSE, r>> : r \in BagToSet(orphanRequests)}

\* request `slot` moves to phase ph; an unreferenced dead request is forgotten
setPhase(c, slot, ph) ==
  IF slot[1] THEN [c EXCEPT !.req.phase = ph]
  ELSE [ c EXCEPT
           !.orph = (@ (-) One(slot[2]))
                    (+) (IF ph = "dead" THEN EmptyBag ELSE One([slot[2] EXCEPT !.phase = ph])) ]

(***************************************************************************)
(* The wire text as a sequence of atoms: NL is one '\n'; a line atom is    *)
(* the text of one line, [kind, json] with kind                            *)
(*   "data"   'data: ' followed by text JSON.parse accepts (json: value)   *)
(*   "bad"    'data: ' followed by text JSON.parse rejects                 *)
(*   "other"  a line without the 'data: ' prefix                           *)
(* A JSON object is a record holding exactly the fields it has.            *)
(***************************************************************************)
NL == [kind |-> "nl"]
DataLine(json) == [kind |-> "data", json |-> json]
BadLine == [kind |-> "bad"]
OtherLine == [kind |-> "other"]

Has(obj, f) == f \in DOMAIN obj

\* s.split(sep) for sep = '\n\n' (n = 2) and sep = '\n' (n = 1)
RECURSIVE splitNL(_, _, _, _)
splitNL(s, n, i, cur) ==
  IF i > Len(s) THEN <<cur>>
  ELSE IF /\ i + n - 1 <= Len(s)
          /\ \A k \in i..(i + n - 1) : s[k] = NL
       THEN <<cur>> \o splitNL(s, n, i + n, <<>>)
       ELSE splitNL(s, n, i + 1, Append(cur, s[i]))

\* The response's 'data' handler up to the loop: buffer += chunk;
\* messages = buffer.split('\n\n'); buffer = messages.pop()
feed(buffer, chunk) ==
  LET messages == splitNL(buffer \o chunk, 2, 1, <<>>) IN
  [ messages |-> SubSeq(messages, 1, Len(messages) - 1),
    buffer |-> messages[Len(messages)] ]

\* line.startsWith('data: ') and what JSON.parse(line.substring(6)) does
startsWithData(line) == Len(line) > 0 /\ line[1].kind \in {"data", "bad"}
parses(line) == Len(line) = 1 /\ line[1].kind = "data"

\* The data a message leaves after the loop over its lines: the last line
\* that parsed; [none |-> TRUE] stands for null.
NoData == [none |-> TRUE]
RECURSIVE lastData(_, _, _)
lastData(lines, i, data) ==
  IF i > Len(lines) THEN data
  ELSE lastData(lines, i + 1,
         IF startsWithData(lines[i]) /\ parses(lines[i]) THEN lines[i][1].json ELSE data)

\* data?.pub?.data?.np || data?.np is truthy, and its value
hasNp(data) ==
  \/ Has(data, "pub") /\ Has(data.pub, "data") /\ Has(data.pub.data, "np")
  \/ Has(data, "np")
getNp(data) ==
  IF Has(data, "pub") /\ Has(data.pub, "data") /\ Has(data.pub.data, "np")
  THEN data.pub.data.np ELSE data.np

\* x.f || dflt for an optional field
orElse(obj, f, dflt) == IF Has(obj, f) /\ obj[f] # dflt THEN obj[f] ELSE dflt

\* processNowPlayingData(data, channelKey) up to the delay: the accepted
\* event (song, duration, elapsed), if any
processNowPlayingData(data) ==
  IF ~hasNp(data) \/ ~Has(getNp(data), "now_playing") THEN <<>>
  ELSE LET now == getNp(data).now_playing IN
       IF ~Has(now, "song") THEN <<>>
       ELSE << [ title |-> orElse(now.song, "title", ""),
                 artist |-> orElse(now.song, "artist", ""),
                 album |-> orElse(now.song, "album", ""),
                 art |-> orElse(now.song, "art", ""),
                 duration |-> orElse(now, "duration", 0),
                 elapsed |-> orElse(now, "elapsed", 0) ] >>

RECURSIVE processItems(_, _)
processItems(items, i) ==
  IF i > Len(items) THEN <<>>
  ELSE processNowPlayingData(items[i]) \o processItems(items, i + 1)

\* handleSSEMessage that makes an event of a payload it could not parse.
handleSSEMessageKeepsGarbage(message) ==
  LET lines == splitNL(message, 1, 1, <<>>)
      data == lastData(lines, 1, NoData)
  IN
  IF data = NoData
  THEN IF \E i \in 1..Len(lines) : startsWithData(lines[i])
       THEN << [title |-> "", artist |-> "", album |-> "", art |-> "",
                duration |-> 0, elapsed |-> 0] >>
       ELSE <<>>
  ELSE IF Has(data, "connect")
       THEN IF Has(data.connect, "data") THEN processItems(data.connect.data, 1) ELSE <<>>
       ELSE processNowPlayingData(data)

\* handleSSEMessage that takes a connect frame for a now-playing payload.
handleSSEMessageNoConnect(message) ==
  LET data == lastData(splitNL(message, 1, 1, <<>>), 1, NoData) IN
  IF data = NoData THEN <<>> ELSE processNowPlayingData(data)

\* handleSSEMessage(message, channelKey): the events it accepts, in order
handleSSEMessage(message) ==
  LET data == lastData(splitNL(message, 1, 1, <<>>), 1, NoData) IN
  IF data = NoData THEN <<>>
  ELSE IF Has(data, "connect")
       THEN IF Has(data.connect, "data") THEN processItems(data.connect.data, 1) ELSE <<>>
       ELSE processNowPlayingData(data)

RECURSIVE handleAll(_, _)
handleAll(messages, i) ==
  IF i > Len(messages) THEN <<>>
  ELSE handleSSEMessage(messages[i]) \o handleAll(messages, i + 1)

\* getEffectiveDelay()
getEffectiveDelay ==
  LET delay == metadataDelay + (IF highLatencyMode THEN HIGH_LATENCY_DELAY_MS ELSE 0) IN
  IF delay > 0 THEN delay ELSE 0

(***************************************************************************)
(* The playback session.                                                   *)
(***************************************************************************)
\* this.state = {} of the constructor
EmptyState ==
  [ status |-> "none", title |-> "", artist |-> "", album |-> "", albumart |-> "",
    uri |-> <<>>, trackType |-> "", seek |-> 0, duration |-> 0,
    samplerate |-> "", bitdepth |-> "" ]

\* { status: 'stop', service } of stop()
StoppedState == [EmptyState EXCEPT !.status = "stop"]

CONNECTING == "Connecting..."

\* The state clearAddPlayTrack sets once 'play' has succeeded.
provisionalState(uri) ==
  [ status |-> "play",
    title |-> IF hasChannel(currentChannel) THEN channelName(currentChannel)
              ELSE "Mother Earth Radio",
    artist |-> CONNECTING,
    album |-> getQualityLabel(currentQuality),
    albumart |-> LOGO,
    uri |-> uri,
    trackType |-> IF currentQuality = "aac" THEN "aac" ELSE "flac",
    seek |-> 0, duration |-> 0,
    samplerate |-> getSampleRate(currentQuality),
    bitdepth |-> getBitDepth(currentQuality) ]

\* metadataState that publishes the fields of the event as they came.
metadataStateNoDefaults(ev) ==
  [ status |-> "play",
    title |-> ev.title,
    artist |-> ev.artist,
    album |-> ev.album,
    albumart |-> ev.art,
    uri |-> currentUri,
    trackType |-> IF currentQuality = "aac" THEN "aac" ELSE "flac",
    seek |-> ev.elapsed * 1000, duration |-> ev.duration,
    samplerate |-> getSampleRate(currentQuality),
    bitdepth |-> getBitDepth(currentQuality) ]

\* The state updateMetadata(song, duration, elapsed, np) sets.
metadataState(ev) ==
  [ status |-> "play",
    title |-> IF ev.title # "" THEN ev.title ELSE "Unknown",
    artist |-> IF ev.artist # "" THEN ev.artist ELSE channelName(currentChannel),
    album |-> IF ev.album # "" THEN ev.album ELSE getQualityLabel(currentQuality),
    albumart |-> IF ev.art # "" THEN ev.art ELSE LOGO,
    uri |-> currentUri,
    trackType |-> IF currentQuality = "aac" THEN "aac" ELSE "flac",
    seek |-> ev.elapsed * 1000, duration |-> ev.duration,
    samplerate |-> getSampleRate(currentQuality),
    bitdepth |-> getBitDepth(currentQuality) ]

\* updateMetadata(song, duration, elapsed, np): the state and the history
\* after it
updateMetadata(st, h, ev) ==
  IF ~hasChannel(currentChannel) THEN [state |-> st, hist |-> h]
  ELSE [ state |-> metadataState(ev),
         hist |-> [h EXCEPT !.real = TRUE] ]

RECURSIVE updateAll(_, _, _)
updateAll(sh, events, i) ==
  IF i > Len(events) THEN sh
  ELSE updateAll(updateMetadata(sh.state, sh.hist, events[i]), events, i + 1)

\* What setTimeout holds for one delayed event.
Timer(ev, origin) == [ev |-> ev, origin |-> origin, stale |-> FALSE]

RECURSIVE timersOf(_, _, _)
timersOf(events, i, origin) ==
  IF i > Len(events) THEN EmptyBag
  ELSE One(Timer(events[i], origin)) (+) timersOf(events, i + 1, origin)

\* History: every timer armed before a teardown belongs to a torn-down session.
RECURSIVE markStale(_)
markStale(bag) ==
  IF bag = EmptyBag THEN EmptyBag
  ELSE LET t == CHOOSE x \in BagToSet(bag) : TRUE IN
       One([t EXCEPT !.stale = TRUE]) (+) markStale(bag (-) One(t))

NoHist == [prov |-> FALSE, real |-> FALSE]
NoResult == [call |-> "none", outcome |-> "none"]

TransportOrder == <<"stop", "clear", "add", "play">>

(***************************************************************************)
(* Inputs.                                                                 *)
(***************************************************************************)
NpA ==
  [ now_playing |->
      [ song |-> [title |-> "B", artist |-> "A", album |-> "Album", art |-> "cover.jpg"],
        duration |-> 180, elapsed |-> 5 ] ]
NpB == [now_playing |-> [song |-> [title |-> "T", artist |-> ""]]]
NpNoSong == [now_playing |-> [duration |-> 0]]
Envelope(np) == [channel |-> "station", pub |-> [data |-> [np |-> np]]]

ChunkUpdate == <<DataLine(Envelope(NpA)), NL, NL>>
ChunkPing == <<DataLine([channel |-> "station"]), NL, NL>>
ChunkBad == <<BadLine, NL, NL>>
ChunkConnect ==
  << OtherLine, NL,
     DataLine([connect |-> [client |-> "c", data |-> <<Envelope(NpB), Envelope(NpNoSong)>>]]),
     NL, NL >>
SessionChunks == {ChunkUpdate, ChunkPing, ChunkBad}

PlayUris ==
  { serviceUri("jazz", "aac"), serviceUri("bogus", "flac192"),
    serviceUri("constructor", "flac192") }

StartKeys == {"radio", "jazz", "bogus"}
DefaultConfig == [apiDelay |-> 0, highLatencyMode |-> FALSE]
SavedConfigs == {[apiDelay |-> 0, highLatencyMode |-> FALSE],
                 [apiDelay |-> 3, highLatencyMode |-> TRUE]}

ConnBounds ==
  [orph |-> MaxOrphans, otmr |-> MaxTimers, fail |-> MaxFailures, ops |-> 0, pend |-> 0]
SessionBounds ==
  [ orph |-> SessionOrphans, otmr |-> SessionTimers, fail |-> SessionFailures,
    ops |-> SessionOps, pend |-> SessionPending ]

(***************************************************************************)
(* Lifecycle and configuration.                                            *)
(***************************************************************************)
\* onStart()
OnStart ==
  /\ ~started
  /\ started' = TRUE
  /\ metadataDelay' = IF config.apiDelay # 0 THEN config.apiDelay ELSE 3
  /\ highLatencyMode' = config.highLatencyMode
  /\ UNCHANGED <<config, cmVars, sessionVars, helperVars>>

\* saveConfig(data)
SaveConfig(data) ==
  /\ started
  /\ config' = [apiDelay |-> data.apiDelay, highLatencyMode |-> data.highLatencyMode]
  /\ highLatencyMode' = data.highLatencyMode
  /\ metadataDelay' = data.apiDelay
  /\ UNCHANGED <<started, cmVars, sessionVars, helperVars>>

\* onStop()
OnStop(B, late) ==
  /\ started
  /\ LET c == stopSSE(CM, late) IN Fits(B, c) /\ SetCM(c)
  /\ UNCHANGED <<sessionVars, configVars, helperVars>>

(***************************************************************************)
(* The connection manager: calls, callbacks and timers.                    *)
(***************************************************************************)
\* startSSE(channelKey) called on its own
StartSSE(B, channelKey, late) ==
  /\ started
  /\ LET c == startSSE(CM, channelKey, late) IN Fits(B, c) /\ SetCM(c)
  /\ UNCHANGED <<sessionVars, configVars, helperVars>>

\* The response callback, statusCode 200, without the reset of the counter.
OnResponse200KeepsAttempts(B, slot) ==
  /\ slot[2].phase = "connecting"
  /\ SetCM(setPhase(CM, slot, "streaming"))
  /\ UNCHANGED <<sessionVars, configVars, helperVars>>

\* the response callback, statusCode 200
OnResponse200(B, slot) ==
  /\ slot[2].phase = "connecting"
  /\ LET c == setPhase(CM, slot, "streaming") IN
     SetCM([c EXCEPT !.attempts = 0, !.streak = NoStreak])
  /\ UNCHANGED <<sessionVars, configVars, helperVars>>

\* The response callback that takes a status other than 200 for fatal.
OnResponseNon200Fatal(B, slot) ==
  /\ slot[2].phase = "connecting"
  /\ LET c0 == setPhase(CM, slot, "rejected")
         c == [c0 EXCEPT !.streak.failures = @ + 1, !.streak.toasts = @ + 1]
     IN Fits(B, c) /\ SetCM(c)
  /\ UNCHANGED <<sessionVars, configVars, helperVars>>

\* the response callback, statusCode other than 200
OnResponseNon200(B, slot) ==
  /\ slot[2].phase = "connecting"
  /\ LET c == scheduleSSEReconnect(setPhase(CM, slot, "rejected"), slot[2].chan) IN
     Fits(B, c) /\ SetCM(c)
  /\ UNCHANGED <<sessionVars, configVars, helperVars>>

\* response.on('end')
OnResponseEnd(B, slot) ==
  /\ slot[2].phase = "streaming"
  /\ LET c == scheduleSSEReconnect(setPhase(CM, slot, "dead"), slot[2].chan) IN
     Fits(B, c) /\ SetCM(c)
  /\ UNCHANGED <<sessionVars, configVars, helperVars>>

\* response.on('error')
OnResponseError(B, slot) ==
  /\ slot[2].phase = "streaming"
  /\ LET c == scheduleSSEReconnect(setPhase(CM, slot, "failing"), slot[2].chan) IN
     Fits(B, c) /\ SetCM(c)
  /\ UNCHANGED <<sessionVars, configVars, helperVars>>

\* A request error handler that stops playback when the retries are used up.
OnRequestErrorStopsPlayback(B, slot) ==
  /\ slot[2].phase \in {"connecting", "rejected", "failing", "destroyed"}
  /\ LET c == scheduleSSEReconnect(setPhase(CM, slot, "dead"), slot[2].chan) IN
     /\ Fits(B, c) /\ SetCM(c)
     /\ IF c.streak.toasts > streak.toasts
        THEN /\ state' = StoppedState
             /\ UNCHANGED <<currentUri, currentChannel, currentQuality, pending, ops,
                            result, hist>>
        ELSE UNCHANGED sessionVars
  /\ UNCHANGED <<configVars, helperVars>>

\* this.sseRequest.on('error'), also as the report of a destroy()
OnRequestError(B, slot) ==
  /\ slot[2].phase \in {"connecting", "rejected", "failing", "destroyed"}
  /\ LET c == scheduleSSEReconnect(setPhase(CM, slot, "dead"), slot[2].chan) IN
     Fits(B, c) /\ SetCM(c)
  /\ UNCHANGED <<sessionVars, configVars, helperVars>>

\* The socket of a request closes without a further callback.
Settle(slot) ==
  /\ slot[2].phase \in {"rejected", "failing"}
  /\ SetCM(setPhase(CM, slot, "dead"))
  /\ UNCHANGED <<sessionVars, configVars, helperVars>>

\* the reconnect timer this.sseReconnectTimer references fires
ReconnectFire(B) ==
  /\ sseReconnectTimer.st = "armed"
  /\ LET c == connectSSE([CM EXCEPT !.tmr.st = "fired"], sseReconnectTimer.chan) IN
     Fits(B, c) /\ SetCM(c)
  /\ UNCHANGED <<sessionVars, configVars, helperVars>>

\* a reconnect timer nothing references any more fires
OrphanReconnectFire(B, chan) ==
  /\ BagIn(chan, orphanTimers)
  /\ LET c == connectSSE([CM EXCEPT !.otmr = @ (-) One(chan)], chan) IN
     Fits(B, c) /\ SetCM(c)
  /\ UNCHANGED <<sessionVars, configVars, helperVars>>

(***************************************************************************)
(* The playback session: calls, transport acknowledgements, data, timers.  *)
(***************************************************************************)
\* One clearAddPlayTrack promise chain: the commands sent so far (the last
\* one is awaiting its acknowledgement) and how many were acknowledged.
NewOp(uri, url) == [uri |-> uri, url |-> url, issued |-> <<"stop">>, acked |-> 0]

\* clearAddPlayTrack(track), its synchronous part; call is "play" or "resume"
clearAddPlayTrack(B, uri, call, late) ==
  LET c0 == stopSSE(CM, late)
      channel == getChannelFromUri(uri)
      quality == getQualityFromUri(uri)
      streamUrl == getStreamUrl(channel, quality)
  IN
  /\ currentChannel' = channel
  /\ currentQuality' = quality
  /\ currentUri' = uri
  /\ pending' = markStale(pending)
  /\ IF streamUrl = TypeError
     THEN \* getStreamUrl throws out of clearAddPlayTrack
          /\ Fits(B, c0) /\ SetCM(c0)
          /\ result' = [call |-> call, outcome |-> "threw"]
          /\ UNCHANGED <<state, ops, hist>>
     ELSE IF streamUrl = NULL
     THEN \* defer.reject('Unknown channel')
          /\ Fits(B, c0) /\ SetCM(c0)
          /\ result' = [call |-> call, outcome |-> "rejected"]
          /\ UNCHANGED <<state, ops, hist>>
     ELSE \* this.startSSE(this.currentChannel); sendMpdCommand('stop', [])
          /\ LET c1 == startSSE(c0, channel, FALSE) IN Fits(B, c1) /\ SetCM(c1)
          /\ BagCardinality(ops) < B.ops
          /\ ops' = ops (+) One(NewOp(uri, streamUrl))
          /\ result' = [call |-> call, outcome |-> "pending"]
          /\ hist' = NoHist
          /\ UNCHANGED state

\* clearAddPlayTrack(track)
Play(B, uri, late) ==
  /\ started
  /\ clearAddPlayTrack(B, uri, "play", late)
  /\ UNCHANGED <<configVars, helperVars>>

\* resume() without the test for a URI on record.
ResumeAlwaysPlays(B, late) ==
  /\ started
  /\ clearAddPlayTrack(B, currentUri, "resume", late)
  /\ UNCHANGED <<configVars, helperVars>>

\* resume()
Resume(B, late) ==
  /\ started
  /\ IF currentUri # <<>>
     THEN clearAddPlayTrack(B, currentUri, "resume", late)
     ELSE IF late THEN FALSE   \* nothing is destroyed, so nothing to report
     ELSE /\ result' = [call |-> "resume", outcome |-> "resolved"]
          /\ UNCHANGED <<cmVars, state, currentUri, currentChannel, currentQuality,
                         pending, ops, hist>>
  /\ UNCHANGED <<configVars, helperVars>>

\* stop() that tears the connection down but publishes nothing.
stopPublishesNothing(B, call, settled, late) ==
  /\ LET c == stopSSE(CM, late) IN Fits(B, c) /\ SetCM(c)
  /\ pending' = markStale(pending)
  /\ result' = [call |-> call, outcome |-> settled]
  /\ UNCHANGED <<state, currentUri, currentChannel, currentQuality, ops, hist>>

\* stop(); call is "stop" or "pause", settled is how mpdPlugin.stop() settles
stop(B, call, settled, late) ==
  /\ LET c == stopSSE(CM, late) IN Fits(B, c) /\ SetCM(c)
  /\ state' = StoppedState
  /\ pending' = markStale(pending)
  /\ result' = [call |-> call, outcome |-> settled]
  /\ UNCHANGED <<currentUri, currentChannel, currentQuality, ops, hist>>

\* stop()
Stop(B, settled, late) ==
  /\ started
  /\ stop(B, "stop", settled, late)
  /\ UNCHANGED <<configVars, helperVars>>

\* pause() handed to the transport alone, the connection left as it is.
PauseTransportOnly(B, settled, late) ==
  /\ started
  /\ ~late
  /\ result' = [call |-> "pause", outcome |-> settled]
  /\ UNCHANGED <<cmVars, state, currentUri, currentChannel, currentQuality, pending,
                 ops, hist>>
  /\ UNCHANGED <<configVars, helperVars>>

\* pause()
Pause(B, settled, late) ==
  /\ started
  /\ stop(B, "pause", settled, late)
  /\ UNCHANGED <<configVars, helperVars>>

\* A chain that goes on with the next command after a failed one.
mpdFailGoesOn(op) ==
  /\ Len(op.issued) < Len(TransportOrder)
  /\ ops' = (ops (-) One(op))
            (+) One([op EXCEPT !.issued = Append(@, TransportOrder[Len(@) + 1])])
  /\ UNCHANGED <<state, result, hist>>

\* sendMpdCommand rejects: .fail((err) => defer.reject(err))
mpdFail(op) ==
  /\ ops' = ops (-) One(op)
  /\ result' = [call |-> "play", outcome |-> "rejected"]
  /\ UNCHANGED <<state, hist>>

\* sendMpdCommand resolves: the next .then() of the chain runs
mpdOk(op) ==
  IF Len(op.issued) < Len(TransportOrder)
  THEN /\ ops' = (ops (-) One(op))
                 (+) One([op EXCEPT !.issued = Append(@, TransportOrder[Len(@) + 1]),
                                    !.acked = @ + 1])
       /\ UNCHANGED <<state, result, hist>>
  ELSE \* 'play' succeeded: set and push the initial state, defer.resolve()
       /\ ops' = ops (-) One(op)
       /\ state' = provisionalState(op.uri)
       /\ hist' = [hist EXCEPT !.prov = TRUE]
       /\ result' = [call |-> "play", outcome |-> "resolved"]

MpdOk(op) ==
  /\ BagIn(op, ops)
  /\ mpdOk(op)
  /\ UNCHANGED <<cmVars, configVars, helperVars, currentUri, currentChannel,
                 currentQuality, pending>>

MpdFail(op) ==
  /\ BagIn(op, ops)
  /\ mpdFail(op)
  /\ UNCHANGED <<cmVars, configVars, helperVars, currentUri, currentChannel,
                 currentQuality, pending>>

\* the request's buffer after a chunk
setBuffer(c, slot, buffer) ==
  IF slot[1] THEN [c EXCEPT !.req.buffer = buffer]
  ELSE [c EXCEPT !.orph = (@ (-) One(slot[2])) (+) One([slot[2] EXCEPT !.buffer = buffer])]

\* OnData that hands every accepted event to setTimeout, whatever the delay.
OnDataAlwaysDefers(B, slot, chunk) ==
  /\ slot[2].phase = "streaming"
  /\ LET fed == feed(slot[2].buffer, chunk)
         events == handleAll(fed.messages, 1)
     IN
     /\ SetCM(setBuffer(CM, slot, fed.buffer))
     /\ pending' = pending (+) timersOf(events, 1, slot[2].chan)
     /\ BagCardinality(pending') <= B.pend
     /\ UNCHANGED <<state, hist>>
  /\ UNCHANGED <<configVars, helperVars, currentUri, currentChannel, currentQuality,
                 ops, result>>

\* response.on('data'): every complete message is handled; an accepted
\* event is applied at once or handed to setTimeout
OnData(B, slot, chunk) ==
  /\ slot[2].phase = "streaming"
  /\ LET fed == feed(slot[2].buffer, chunk)
         events == handleAll(fed.messages, 1)
         delay == getEffectiveDelay
     IN
     /\ SetCM(setBuffer(CM, slot, fed.buffer))
     /\ IF delay > 0
        THEN /\ pending' = pending (+) timersOf(events, 1, slot[2].chan)
             /\ BagCardinality(pending') <= B.pend
             /\ UNCHANGED <<state, hist>>
        ELSE LET sh == updateAll([state |-> state, hist |-> hist], events, 1) IN
             /\ state' = sh.state
             /\ hist' = sh.hist
             /\ UNCHANGED pending
  /\ UNCHANGED <<configVars, helperVars, currentUri, currentChannel, currentQuality,
                 ops, result>>

\* DelayFire that flushes the queue: firing one timer cancels the others.
DelayFireFlushes(t) ==
  /\ BagIn(t, pending)
  /\ pending' = EmptyBag
  /\ LET sh == updateMetadata(state, hist, t.ev) IN
     /\ state' = sh.state
     /\ hist' = sh.hist
  /\ UNCHANGED <<cmVars, configVars, helperVars, currentUri, currentChannel,
                 currentQuality, ops, result>>

\* a metadata delay timer fires: updateMetadata(song, duration, elapsed, np)
DelayFire(t) ==
  /\ BagIn(t, pending)
  /\ pending' = pending (-) One(t)
  /\ LET sh == updateMetadata(state, hist, t.ev) IN
     /\ state' = sh.state
     /\ hist' = sh.hist
  /\ UNCHANGED <<cmVars, configVars, helperVars, currentUri, currentChannel,
                 currentQuality, ops, result>>

(***************************************************************************)
(* Specifications.                                                         *)
(***************************************************************************)
NoArg == [key |-> NULL, quality |-> NULL, uri |-> <<>>]
NoRet == [fn |-> "none", value |-> NULL]

Init ==
  /\ arg = NoArg
  /\ ret = NoRet
  /\ started = FALSE
  /\ config = DefaultConfig
  /\ metadataDelay = 0
  /\ highLatencyMode = FALSE
  /\ state = EmptyState
  /\ currentUri = <<>>
  /\ currentChannel = NULL
  /\ currentQuality = NULL
  /\ sseRequest = NoRequest
  /\ sseReconnectAttempts = 0
  /\ sseReconnectTimer = NoTimer
  /\ orphanRequests = EmptyBag
  /\ orphanTimers = EmptyBag
  /\ pending = EmptyBag
  /\ ops = EmptyBag
  /\ result = NoResult
  /\ streak = NoStreak
  /\ hist = NoHist

Settled == {"resolved", "rejected"}

\* The playback session with its connection manager.
Next ==
  \/ OnStart
  \/ \E data \in SavedConfigs : SaveConfig(data)
  \/ \E uri \in PlayUris, late \in BOOLEAN : Play(SessionBounds, uri, late)
  \/ \E late \in BOOLEAN : Resume(SessionBounds, late)
  \/ \E settled \in Settled, late \in BOOLEAN : Stop(SessionBounds, settled, late)
  \/ \E settled \in Settled, late \in BOOLEAN : Pause(SessionBounds, settled, late)
  \/ \E op \in BagToSet(ops) : MpdOk(op)
  \/ \E op \in BagToSet(ops) : MpdFail(op)
  \/ \E slot \in Slots : OnResponse200(SessionBounds, slot)
  \/ \E slot \in Slots : OnResponseEnd(SessionBounds, slot)
  \/ \E slot \in Slots, chunk \in SessionChunks : OnData(SessionBounds, slot, chunk)
  \/ ReconnectFire(SessionBounds)
  \/ \E t \in BagToSet(pending) : DelayFire(t)

Spec == Init /\ [][Next]_vars

\* The connection manager on its own, with the whole retry schedule.
NextConn ==
  \/ OnStart
  \/ \E key \in StartKeys, late \in BOOLEAN : StartSSE(ConnBounds, key, late)
  \/ \E late \in BOOLEAN : OnStop(ConnBounds, late)
  \/ \E slot \in Slots : OnResponse200(ConnBounds, slot)
  \/ \E slot \in Slots : OnResponseNon200(ConnBounds, slot)
  \/ \E slot \in Slots : OnResponseEnd(ConnBounds, slot)
  \/ \E slot \in Slots : OnResponseError(ConnBounds, slot)
  \/ \E slot \in Slots : OnRequestError(ConnBounds, slot)
  \/ \E slot \in Slots : Settle(slot)
  \/ ReconnectFire(ConnBounds)
  \/ \E chan \in BagToSet(orphanTimers) : OrphanReconnectFire(ConnBounds, chan)

SpecConn == Init /\ [][NextConn]_vars

(***************************************************************************)
(* The helpers called on their own, on inputs drawn from bounded sets.     *)
(***************************************************************************)
TestKeys == ChannelKeys \cup ProtoKeys \cup {"bogus", ""}
TestQualities == QualityTiers \cup ProtoKeys \cup {"mp3", ""}
TestUris ==
  { <<>>, SERVICE, SERVICE \o <<"/", "jazz">>, <<"radio", "/", "jazz", "/", "aac">>,
    <<"https://host/listen/", "motherearth", "_jazz", "/", "motherearth", ".jazz", ".aac">>,
    <<"https://host/listen/", "other", ".flac-lo">> }
    \cup {serviceUri(k, q) : k \in {"jazz", "bogus", "constructor"}, q \in {"flac96", "mp3"}}

InitHelpers ==
  /\ arg \in [key : TestKeys, quality : TestQualities, uri : TestUris]
  /\ ret = NoRet
  /\ started = FALSE
  /\ config = DefaultConfig
  /\ metadataDelay = 0
  /\ highLatencyMode = FALSE
  /\ state = EmptyState
  /\ currentUri = <<>>
  /\ currentChannel = NULL
  /\ currentQuality = NULL
  /\ sseRequest = NoRequest
  /\ sseReconnectAttempts = 0
  /\ sseReconnectTimer = NoTimer
  /\ orphanRequests = EmptyBag
  /\ orphanTimers = EmptyBag
  /\ pending = EmptyBag
  /\ ops = EmptyBag
  /\ result = NoResult
  /\ streak = NoStreak
  /\ hist = NoHist

Returns(fn, value) ==
  /\ ret = NoRet
  /\ ret' = [fn |-> fn, value |-> value]
  /\ UNCHANGED <<arg, cmVars, sessionVars, configVars>>

CallGetStreamUrl == Returns("getStreamUrl", getStreamUrl(arg.key, arg.quality))
CallGetChannelFromUri == Returns("getChannelFromUri", getChannelFromUri(arg.uri))
CallGetQualityFromUri == Returns("getQualityFromUri", getQualityFromUri(arg.uri))

NextHelpers ==
  \/ CallGetStreamUrl
  \/ CallGetChannelFromUri
  \/ CallGetQualityFromUri

SpecHelpers == InitHelpers /\ [][NextHelpers]_vars

(***************************************************************************)
(* Observations used by the properties.                                    *)
(***************************************************************************)
\* requests, held or no longer held, that are connecting or streaming
ActiveConnections ==
  (IF Active(sseRequest.phase) THEN 1 ELSE 0)
  + BagCardinality(
      [r \in {x \in BagToSet(orphanRequests) : Active(x.phase)} |-> orphanRequests[r]])

\* reconnect timers that will still fire
PendingReconnects ==
  (IF sseReconnectTimer.st = "armed" THEN 1 ELSE 0) + BagCardinality(orphanTimers)

\* a service URI naming a registered channel and a registered quality tier
uriKnown(uri) ==
  LET parts == split(uri) IN
  /\ Len(parts) >= 3
  /\ parts[1] = SERVICE
  /\ partKey(parts[2]) \in ChannelKeys
  /\ partKey(parts[3]) \in QualityTiers

(***************************************************************************)
(* Properties.                                                             *)
(***************************************************************************)

\* C1: in every reachable state at most one push-connection is connecting
\* or streaming and at most one reconnect timer (reconnect loop) is pending.
C1_SingleConnection ==
  /\ ActiveConnections <= 1
  /\ PendingReconnects <= 1

\* C2: a delay timer that was pending when stop() was called and fires
\* while the session is still stopped publishes nothing: the state stays
\* the stopped state.
C2_StopCancelsPendingEvent ==
  [][\A t \in BagToSet(pending) :
       (t.stale /\ state.status = "stop" /\ pending' = pending (-) One(t))
         => state' = state]_vars

\* C3: a delay timer armed by the connection of channel A that fires after
\* play() switched the session to another channel B is dropped: the
\* published state does not change.
C3_SwitchDropsPendingEvent ==
  [][\A t \in BagToSet(pending) :
       (t.stale /\ t.origin # currentChannel /\ pending' = pending (-) One(t))
         => state' = state]_vars

\* C4: whenever the playback state has status stop, no push-connection is
\* connecting or streaming and no reconnect timer is pending, also while a
\* play() or resume() is running its transport sequence.
C4_StoppedMeansIdle ==
  state.status = "stop" => (ActiveConnections = 0 /\ PendingReconnects = 0)

\* C5: once play() has been rejected because a transport command failed,
\* the connection manager is not running for that request: no held
\* push-connection is connecting or streaming.
C5_FailedPlayStartsNothing ==
  (result = [call |-> "play", outcome |-> "rejected"]) => ~Active(sseRequest.phase)

\* C6: every play() request issues stop, clear, add(url), play in this
\* order, the add carrying the URL resolved for the request, each command
\* only after the one before it succeeded; a failed command ends the
\* sequence, so a request never has more than one command unacknowledged.
C6_TransportOrder ==
  \A op \in BagToSet(ops) :
    /\ Len(op.issued) \in 1..Len(TransportOrder)
    /\ op.issued = SubSeq(TransportOrder, 1, Len(op.issued))
    /\ Len(op.issued) = op.acked + 1
    /\ op.url = getStreamUrl(getChannelFromUri(op.uri), getQualityFromUri(op.uri))

\* C6 happens: a request whose first three commands succeeded has issued
\* all four commands in order.
C6_Witness ==
  \E op \in BagToSet(ops) : op.issued = TransportOrder /\ op.acked = 3

\* C7: since the last play(), the provisional state was published before
\* the connection manager was started and before any state derived from a
\* track event was published.
C7_ProvisionalFirst ==
  (Active(sseRequest.phase) \/ hist.real) => hist.prov

\* C8: a play() that was accepted (its transport sequence begun and the
\* connection manager started) named a registered channel and a registered
\* quality tier; any other URI is rejected at once.
C8_UnknownUriRejected ==
  result.outcome = "pending" => uriKnown(currentUri)

\* C9: for a registered channel key and one of the three quality tiers,
\* getStreamUrl returns the non-empty URL registered for the pair; for a
\* key that is not registered it returns no URL, whatever the tier.
C9_StreamUrl ==
  ret.fn = "getStreamUrl" =>
    /\ (arg.key \in ChannelKeys /\ arg.quality \in QualityTiers) =>
         /\ ret.value = streamLookup(channels[arg.key].streams, arg.quality)
         /\ ret.value \notin {"", NULL, UNDEFINED, TypeError}
    /\ arg.key \notin ChannelKeys => ret.value \in {NULL, TypeError}

\* C9 happens: getStreamUrl was called with a registered pair and returned
\* its URL.
C9_Witness ==
  /\ ret.fn = "getStreamUrl"
  /\ arg.key = "jazz"
  /\ arg.quality = "aac"
  /\ ret.value = channels.jazz.streams.aac

StreamingConnections ==
  (IF sseRequest.phase = "streaming" THEN 1 ELSE 0)
  + BagCardinality(
      [r \in {x \in BagToSet(orphanRequests) : x.phase = "streaming"} |-> orphanRequests[r]])

\* C11: the step that handles an HTTP 200 response leaves
\* sseReconnectAttempts at 0, whatever number of failures came before, and
\* a failure handled with the counter at 0 is attempt 1: the counter
\* becomes 1 and the reconnect is scheduled after one base delay.
C11_ResetOnSuccess ==
  [][/\ StreamingConnections' > StreamingConnections =>
          (sseReconnectAttempts' = 0 /\ streak' = NoStreak)
     /\ (streak'.failures = streak.failures + 1 /\ sseReconnectAttempts = 0) =>
          /\ sseReconnectAttempts' = 1
          /\ sseReconnectTimer'.st = "armed"
          /\ sseReconnectTimer'.delay = SSE_RECONNECT_DELAY_MS]_vars

\* C11 happens: the connection made by the second retry (its timer, armed
\* for two base delays, has fired) got its 200 and the counter is 0.
C11_Witness ==
  /\ sseRequest.phase = "streaming"
  /\ sseReconnectTimer.st = "fired"
  /\ sseReconnectTimer.delay = 2 * SSE_RECONNECT_DELAY_MS
  /\ sseReconnectAttempts = 0

\* C12: sseReconnectAttempts decreases only in a step that handles a 200
\* response or tears the connection down (both leave it at 0); handling a
\* failure never lowers it and the firing of a reconnect timer leaves it
\* as it is.
C12_AttemptsMonotone ==
  [][/\ sseReconnectAttempts' < sseReconnectAttempts =>
          /\ sseReconnectAttempts' = 0
          /\ \/ StreamingConnections' > StreamingConnections
             \/ sseReconnectTimer' = NoTimer
     /\ streak'.failures = streak.failures + 1 =>
          sseReconnectAttempts' >= sseReconnectAttempts
     /\ PendingReconnects' < PendingReconnects /\ sseReconnectTimer' # NoTimer =>
          sseReconnectAttempts' = sseReconnectAttempts]_vars

\* C12 happens: after three failures the third retry is connecting and the
\* counter is still 3.
C12_Witness ==
  /\ sseReconnectAttempts = 3
  /\ sseReconnectTimer.st = "fired"
  /\ sseRequest.phase = "connecting"
  /\ streak.failures = 3

\* C13: once retry exhaustion has been reported, and until the next
\* start() or teardown, no push-connection is connecting or streaming and
\* no reconnect timer is pending.
C13_AbandonedStaysIdle ==
  streak.toasts >= 1 => (ActiveConnections = 0 /\ PendingReconnects = 0)

\* C14: the error toast is emitted only by a step taken with
\* sseReconnectAttempts at SSE_MAX_RECONNECT_ATTEMPTS or above; a failure
\* handled below that emits nothing and schedules a reconnect.
C14_NoToastBelowMax ==
  [][/\ streak'.toasts > streak.toasts =>
          sseReconnectAttempts >= SSE_MAX_RECONNECT_ATTEMPTS
     /\ (streak'.failures = streak.failures + 1
           /\ sseReconnectAttempts < SSE_MAX_RECONNECT_ATTEMPTS) =>
          /\ streak'.toasts = streak.toasts
          /\ sseReconnectTimer'.st = "armed"]_vars

\* C14 happens: the ninth failure of a streak has been handled without a
\* toast and the ninth retry is scheduled.
C14_Witness ==
  /\ streak = [failures |-> 9, toasts |-> 0]
  /\ sseReconnectAttempts = 9
  /\ sseReconnectTimer.st = "armed"
  /\ sseReconnectTimer.delay = 9 * SSE_RECONNECT_DELAY_MS

\* The playback session while the connection manager uses up its retries.
ExhaustBounds ==
  [orph |-> 0, otmr |-> 0, fail |-> MaxFailures, ops |-> SessionOps, pend |-> 0]

NextExhaust ==
  \/ OnStart
  \/ \E uri \in PlayUris, late \in BOOLEAN : Play(ExhaustBounds, uri, late)
  \/ \E settled \in Settled, late \in BOOLEAN : Stop(ExhaustBounds, settled, late)
  \/ \E op \in BagToSet(ops) : MpdOk(op)
  \/ \E op \in BagToSet(ops) : MpdFail(op)
  \/ \E slot \in Slots : OnResponse200(ExhaustBounds, slot)
  \/ \E slot \in Slots : OnResponseEnd(ExhaustBounds, slot)
  \/ \E slot \in Slots : OnRequestError(ExhaustBounds, slot)
  \/ ReconnectFire(ExhaustBounds)

SpecExhaust == Init /\ [][NextExhaust]_vars

\* C15: the step that emits the error toast changes nothing of the
\* playback session: the published state, the URI and channel on record,
\* the transport sequences in flight and the last call's result stay as
\* they are.
C15_ExhaustionLeavesSession ==
  [][streak'.toasts > streak.toasts => UNCHANGED sessionVars]_vars

\* C15 happens: the toast has been emitted while the session shows the
\* provisional playing state of its URI.
C15_Witness ==
  /\ streak.toasts = 1
  /\ state = provisionalState(currentUri)
  /\ state.status = "play"

\* C16: when the connection manager holds neither a request nor a timer,
\* as stopSSE() leaves it, no reconnect timer is pending and
\* sseReconnectAttempts is 0.
C16_StopLeavesNothing ==
  (sseRequest = NoRequest /\ sseReconnectTimer = NoTimer) =>
    (PendingReconnects = 0 /\ sseReconnectAttempts = 0)

\* connecting or streaming requests of a connection manager value
ActiveIn(c) ==
  (IF Active(c.req.phase) THEN 1 ELSE 0)
  + BagCardinality([r \in {x \in BagToSet(c.orph) : Active(x.phase)} |-> c.orph[r]])

C19_PauseIsStop ==
  [][(result'.call \in {"pause", "stop"} /\ result' # result) =>
       \E settled \in Settled, late \in BOOLEAN :
         LET c == stopSSE(CM, late) IN
         /\ <<sseRequest', sseReconnectAttempts', sseReconnectTimer', orphanRequests',
              orphanTimers', streak'>>
              = <<c.req, c.attempts, c.tmr, c.orph, c.otmr, c.streak>>
         /\ state' = StoppedState
         /\ pending' = markStale(pending)
         /\ result'.outcome = settled
         /\ UNCHANGED <<currentUri, currentChannel, currentQuality, ops, hist>>]_vars

\* C19 happens: pause() was called on a streaming session and the
\* published state is the stopped state with nothing held.
C19_Witness ==
  /\ result.call = "pause"
  /\ state = StoppedState
  /\ hist.prov
  /\ sseRequest = NoRequest
  /\ sseReconnectTimer = NoTimer

\* what a call of play(uri) does before it returns, whatever it is called
playEffect(uri, late) ==
  LET c0 == stopSSE(CM, late)
      channel == getChannelFromUri(uri)
      quality == getQualityFromUri(uri)
      url == getStreamUrl(channel, quality)
      c1 == IF url \in {NULL, TypeError} THEN c0 ELSE startSSE(c0, channel, FALSE)
  IN
  /\ <<sseRequest', sseReconnectAttempts', sseReconnectTimer', orphanRequests',
       orphanTimers', streak'>>
       = <<c1.req, c1.attempts, c1.tmr, c1.orph, c1.otmr, c1.streak>>
  /\ <<currentUri', currentChannel', currentQuality'>> = <<uri, channel, quality>>
  /\ pending' = markStale(pending)
  /\ state' = state
  /\ IF url = TypeError THEN result'.outcome = "threw" /\ ops' = ops /\ hist' = hist
     ELSE IF url = NULL THEN result'.outcome = "rejected" /\ ops' = ops /\ hist' = hist
     ELSE /\ result'.outcome = "pending"
          /\ ops' = ops (+) One(NewOp(uri, url))
          /\ hist' = NoHist

\* C20: a resume() step with no URI on record resolves and changes nothing
\* else: no transport command, no connection, no published state.  With a
\* URI on record it does what the play() call of that URI does: a play()
\* step and a resume() step satisfy the same relation, the same teardown,
\* connection start and transport sequence, whose last acknowledgement
\* publishes the provisional state of the URI.
C20_ResumeIsPlay ==
  [][/\ (result'.call = "resume" /\ result' # result /\ currentUri = <<>>) =>
          /\ result'.outcome = "resolved"
          /\ UNCHANGED <<cmVars, state, currentUri, currentChannel, currentQuality,
                         pending, ops, hist>>
     /\ (result'.call = "resume" /\ result' # result /\ currentUri # <<>>) =>
          \E late \in BOOLEAN : playEffect(currentUri, late)
     /\ (result'.call = "play" /\ result'.outcome \in {"pending", "threw"}
           /\ result' # result) =>
          \E late \in BOOLEAN : playEffect(currentUri', late)]_vars

\* C20 happens: resume() after a stop has opened the connection and begun
\* the transport sequence for the URI on record.
C20_Witness ==
  /\ result = [call |-> "resume", outcome |-> "pending"]
  /\ sseRequest = [chan |-> getChannelFromUri(currentUri), phase |-> "connecting",
                   buffer |-> <<>>]
  /\ \E op \in BagToSet(ops) : op.uri = currentUri /\ op.issued = <<"stop">>
  /\ state = StoppedState

(***************************************************************************)
(* The envelope decoder called on its own, on frames drawn from a bounded  *)
(* set: every payload shape, alone or after a line that is not data or     *)
(* does not parse, or before a line that does not parse.                   *)
(***************************************************************************)
NpEmptySong == [now_playing |-> [song |-> [text |-> ""], elapsed |-> 0]]
NpIdle == [station |-> "s"]
TestNps == {NpA, NpB, NpNoSong, NpEmptySong, NpIdle}
TestItems == {Envelope(NpA), Envelope(NpNoSong), [np |-> NpB]}
MaxItems == 2
TestArrays == UNION {[1..n -> TestItems] : n \in 0..MaxItems}
TestPayloads ==
  {Envelope(np) : np \in TestNps} \cup {[np |-> np] : np \in TestNps}
    \cup {[channel |-> "station"], [connect |-> [client |-> "c"]]}
    \cup {[connect |-> [client |-> "c", data |-> items]] : items \in TestArrays}
TestFrames ==
  {<<BadLine>>, <<OtherLine>>, <<BadLine, NL, OtherLine>>}
    \cup {<<DataLine(p)>> : p \in TestPayloads}
    \cup {<<OtherLine, NL, DataLine(p)>> : p \in TestPayloads}
    \cup {<<BadLine, NL, DataLine(p)>> : p \in TestPayloads}
    \cup {<<DataLine(p), NL, BadLine>> : p \in TestPayloads}

InitDecode ==
  /\ arg \in [frame : TestFrames]
  /\ ret = NoRet
  /\ started = FALSE
  /\ config = DefaultConfig
  /\ metadataDelay = 0
  /\ highLatencyMode = FALSE
  /\ state = EmptyState
  /\ currentUri = <<>>
  /\ currentChannel = NULL
  /\ currentQuality = NULL
  /\ sseRequest = NoRequest
  /\ sseReconnectAttempts = 0
  /\ sseReconnectTimer = NoTimer
  /\ orphanRequests = EmptyBag
  /\ orphanTimers = EmptyBag
  /\ pending = EmptyBag
  /\ ops = EmptyBag
  /\ result = NoResult
  /\ streak = NoStreak
  /\ hist = NoHist

CallHandleSSEMessage == Returns("handleSSEMessage", handleSSEMessage(arg.frame))

NextDecode == CallHandleSSEMessage

SpecDecode == InitDecode /\ [][NextDecode]_vars

\* the payload of a frame: what its last data line that parses carries
payloadLines(frame) ==
  LET lines == splitNL(frame, 1, 1, <<>>) IN
  {i \in 1..Len(lines) : Len(lines[i]) = 1 /\ lines[i][1].kind = "data"}
hasPayload(frame) == payloadLines(frame) # {}
payloadOf(frame) ==
  LET lines == splitNL(frame, 1, 1, <<>>)
      last == CHOOSE i \in payloadLines(frame) : \A j \in payloadLines(frame) : j <= i
  IN lines[last][1].json

\* an item carries a song sub-structure, under either envelope path
hasSong(item) ==
  \E np \in (IF Has(item, "pub") /\ Has(item.pub, "data") /\ Has(item.pub.data, "np")
             THEN {item.pub.data.np} ELSE IF Has(item, "np") THEN {item.np} ELSE {}) :
    Has(np, "now_playing") /\ Has(np.now_playing, "song")

C22_DelayInMilliseconds ==
  (started /\ config.apiDelay # 0) =>
    getEffectiveDelay
      = 1000 * config.apiDelay + (IF config.highLatencyMode THEN HIGH_LATENCY_DELAY_MS ELSE 0)

\* C23: when the delay timer of an event accepted since the last play(),
\* with no stop() or play() in between, fires and publishes the event's
\* artist and title, the provisional state of that play has been published
\* before.
C23_ProvisionalBeforeEvent ==
  [][\A t \in BagToSet(pending) :
       (~t.stale /\ pending' = pending (-) One(t) /\ state'.status = "play"
          /\ state'.artist = t.ev.artist /\ state'.title = t.ev.title)
         => hist.prov]_vars

RejectedRequests ==
  (IF sseRequest.phase = "rejected" THEN 1 ELSE 0)
  + BagCardinality(
      [r \in {x \in BagToSet(orphanRequests) : x.phase = "rejected"} |-> orphanRequests[r]])

\* C25: the step that handles a response with a status other than 200
\* takes the retry path of every other failure: below the limit the
\* counter grows by one, one more reconnect timer is pending, armed with
\* the base delay times the new counter, and nothing is reported; the
\* counter is not reset and no request starts streaming.
C25_Non200Retries ==
  [][RejectedRequests' > RejectedRequests =>
       /\ streak'.failures = streak.failures + 1
       /\ StreamingConnections' = StreamingConnections
       /\ \E chan \in ChannelKeys \cup ProtoKeys :
            LET c == scheduleSSEReconnect(CM, chan) IN
            <<sseReconnectAttempts', sseReconnectTimer', orphanTimers', streak'>>
              = <<c.attempts, c.tmr, c.otmr, c.streak>>
       /\ sseReconnectAttempts < SSE_MAX_RECONNECT_ATTEMPTS =>
            /\ sseReconnectAttempts' = sseReconnectAttempts + 1
            /\ PendingReconnects' = PendingReconnects + 1
            /\ sseReconnectTimer'.delay = SSE_RECONNECT_DELAY_MS * sseReconnectAttempts'
            /\ streak'.toasts = streak.toasts]_vars

\* C25 happens: the second connection of a streak was answered with a
\* status other than 200 and the second reconnect is armed.
C25_Witness ==
  /\ sseRequest.phase = "rejected"
  /\ sseReconnectAttempts = 2
  /\ sseReconnectTimer.st = "armed"
  /\ sseReconnectTimer.delay = 2 * SSE_RECONNECT_DELAY_MS
  /\ streak.toasts = 0

(***************************************************************************)
(* The data path of one playing session: chunks that end inside a frame,   *)
(* frames that do not parse, several frames in one chunk, and delay timers *)
(* pending together.                                                       *)
(***************************************************************************)
MaxPending == 2     \* delay timers pending together
MaxBuffer == 2      \* atoms of an incomplete frame kept between chunks

ChunkUpdateB == <<DataLine(Envelope(NpB)), NL, NL>>
DataChunks ==
  { ChunkUpdate, ChunkUpdateB, ChunkBad \o ChunkUpdateB,
    ChunkBad \o <<OtherLine>>, <<DataLine(Envelope(NpA))>>, <<NL>> }

DataBounds ==
  [orph |-> 0, otmr |-> 0, fail |-> 0, ops |-> SessionOps, pend |-> MaxPending]

NextData ==
  \/ OnStart
  \/ \E data \in SavedConfigs : SaveConfig(data)
  \/ \E uri \in PlayUris : Play(DataBounds, uri, FALSE)
  \/ \E op \in BagToSet(ops) : MpdOk(op)
  \/ \E slot \in Slots : OnResponse200(DataBounds, slot)
  \/ \E slot \in Slots, chunk \in DataChunks :
       /\ Len(feed(slot[2].buffer, chunk).buffer) <= MaxBuffer
       /\ OnData(DataBounds, slot, chunk)
  \/ \E t \in BagToSet(pending) : DelayFire(t)

SpecData == Init /\ [][NextData]_vars

\* a frame whose data lines all fail to parse
malformed(frame) ==
  LET lines == splitNL(frame, 1, 1, <<>>) IN
  /\ lastData(lines, 1, NoData) = NoData
  /\ \E i \in 1..Len(lines) : startsWithData(lines[i])

\* C26: a data step that completes only frames whose payload does not
\* parse arms no timer and publishes nothing: it changes the kept fragment
\* of its connection and nothing else.  When a frame that parses follows
\* in the same chunk, what the step accepts is what that frame alone gives.
C26_MalformedDropped ==
  [][\A slot \in Slots, chunk \in DataChunks :
       OnData(DataBounds, slot, chunk) =>
         LET fed == feed(slot[2].buffer, chunk) IN
         /\ (Len(fed.messages) >= 1
               /\ \A i \in 1..Len(fed.messages) : malformed(fed.messages[i])) =>
              /\ UNCHANGED <<state, pending, hist, sseReconnectAttempts,
                             sseReconnectTimer, orphanTimers, orphanRequests, streak,
                             ops, result, currentUri, currentChannel, currentQuality>>
              /\ sseRequest' = [sseRequest EXCEPT !.buffer = fed.buffer]
         /\ (Len(fed.messages) = 2 /\ malformed(fed.messages[1])
               /\ ~malformed(fed.messages[2]) /\ getEffectiveDelay > 0) =>
              pending' = pending (+) timersOf(handleSSEMessage(fed.messages[2]), 1,
                                              slot[2].chan)]_vars

\* C26 happens: the connection has handled a frame that does not parse
\* (what is kept is the text that followed it in its chunk) while a delay
\* timer was pending; it is still streaming and the timer is still pending.
C26_Witness ==
  /\ sseRequest.phase = "streaming"
  /\ sseRequest.buffer = <<OtherLine>>
  /\ BagCardinality(pending) = 1
  /\ state.artist = CONNECTING

(***************************************************************************)
(* The data handler on bytes.  The response delivers Buffers; where one    *)
(* Buffer ends is the transport's choice.  chunk.toString() decodes each   *)
(* Buffer as UTF-8 on its own.  Bytes: "nl" is 0x0A, "x" another ASCII     *)
(* byte, "c3" "a9" the two bytes of one character.  Text is a sequence of  *)
(* NL and characters.                                                      *)
(***************************************************************************)
MaxBytes == 4       \* bytes of a response body
Bytes == {"nl", "x", "c3", "a9"}
Streams == UNION {[1..n -> Bytes] : n \in 1..MaxBytes}
Char(c) == [kind |-> "char", c |-> c]
REPLACEMENT == Char("fffd")

\* Buffer.prototype.toString(): a lead byte with its continuation byte is
\* one character; a lead byte without one and a continuation byte without
\* a lead byte each decode to U+FFFD
RECURSIVE toString(_, _)
toString(chunk, i) ==
  IF i > Len(chunk) THEN <<>>
  ELSE IF chunk[i] = "nl" THEN <<NL>> \o toString(chunk, i + 1)
  ELSE IF chunk[i] = "x" THEN <<Char("x")>> \o toString(chunk, i + 1)
  ELSE IF chunk[i] = "c3" /\ i < Len(chunk) /\ chunk[i + 1] = "a9"
       THEN <<Char("e9")>> \o toString(chunk, i + 2)
  ELSE <<REPLACEMENT>> \o toString(chunk, i + 1)

\* the body read so far, the handler's buffer and the frames it has handed
\* to handleSSEMessage
NoBody == [fn |-> "data", pos |-> 0, buffer |-> <<>>, frames |-> <<>>]

InitBytes ==
  /\ arg \in [bytes : Streams]
  /\ ret = NoBody
  /\ started = FALSE
  /\ config = DefaultConfig
  /\ metadataDelay = 0
  /\ highLatencyMode = FALSE
  /\ state = EmptyState
  /\ currentUri = <<>>
  /\ currentChannel = NULL
  /\ currentQuality = NULL
  /\ sseRequest = NoRequest
  /\ sseReconnectAttempts = 0
  /\ sseReconnectTimer = NoTimer
  /\ orphanRequests = EmptyBag
  /\ orphanTimers = EmptyBag
  /\ pending = EmptyBag
  /\ ops = EmptyBag
  /\ result = NoResult
  /\ streak = NoStreak
  /\ hist = NoHist

\* response.on('data') for the next n bytes of the body
OnBytes(n) ==
  /\ ret.pos + n <= Len(arg.bytes)
  /\ LET chunk == SubSeq(arg.bytes, ret.pos + 1, ret.pos + n)
         fed == feed(ret.buffer, toString(chunk, 1))
     IN ret' = [fn |-> "data", pos |-> ret.pos + n, buffer |-> fed.buffer,
                frames |-> ret.frames \o fed.messages]
  /\ UNCHANGED <<arg, cmVars, sessionVars, configVars>>

NextBytes == \E n \in 1..MaxBytes : OnBytes(n)
SpecBytes == InitBytes /\ [][NextBytes]_vars

\* C27: however the body read so far was cut into chunks, the frames handed
\* to the decoder and the fragment kept are those of the same bytes
\* arriving as one chunk.
C27_SplitIndependent ==
  ret.pos > 0 =>
    LET whole == feed(<<>>, toString(SubSeq(arg.bytes, 1, ret.pos), 1)) IN
    /\ ret.frames = whole.messages
    /\ ret.buffer = whole.buffer

\* C28: every accepted event gets a timer of its own and every timer fires
\* on its own.  A data step under a positive delay adds one timer for each
\* event it accepts and touches no timer that was pending; a step in which
\* a timer fires removes that one timer alone and, on a registered
\* channel, publishes the state of its event, whatever else is pending and
\* whatever the order in which the timers were armed.
C28_IndependentTimers ==
  [][/\ \A slot \in Slots, chunk \in DataChunks :
          (OnData(DataBounds, slot, chunk) /\ getEffectiveDelay > 0) =>
            LET events == handleAll(feed(slot[2].buffer, chunk).messages, 1) IN
            /\ BagCardinality(pending') = BagCardinality(pending) + Len(events)
            /\ pending \sqsubseteq pending'
            /\ \A i \in 1..Len(events) : BagIn(Timer(events[i], slot[2].chan), pending')
     /\ BagCardinality(pending') < BagCardinality(pending) =>
          /\ BagCardinality(pending') = BagCardinality(pending) - 1
          /\ pending' \sqsubseteq pending
          /\ \E t \in BagToSet(pending) :
               /\ pending = pending' (+) One(t)
               /\ hasChannel(currentChannel) =>
                    state' = metadataState(t.ev) /\ hist'.real]_vars

\* C28 happens: the timers of two different events are pending together
\* in a playing session after an earlier event was applied.
C28_Witness ==
  /\ state.status = "play"
  /\ hist.real
  /\ \E t1, t2 \in BagToSet(pending) :
       /\ t1.ev # t2.ev
       /\ ~t1.stale /\ ~t2.stale
       /\ state # metadataState(t1.ev)
       /\ state # metadataState(t2.ev)

\* C29: in a data step that accepts events, an effective delay of 0 arms
\* no timer and publishes within the step, so that on a registered channel
\* the step ends with the state of the last event accepted; a positive
\* delay publishes nothing in the step and arms one timer per event.
C29_ImmediateOrDeferred ==
  [][\A slot \in Slots, chunk \in DataChunks :
       OnData(DataBounds, slot, chunk) =>
         LET events == handleAll(feed(slot[2].buffer, chunk).messages, 1) IN
         Len(events) > 0 =>
           IF getEffectiveDelay = 0
           THEN /\ pending' = pending
                /\ hasChannel(currentChannel) =>
                     state' = metadataState(events[Len(events)]) /\ hist'.real
           ELSE /\ state' = state /\ hist' = hist
                /\ BagCardinality(pending') = BagCardinality(pending) + Len(events)
                /\ Len(events) = 1 =>
                     pending' = pending (+) One(Timer(events[1], slot[2].chan))]_vars

\* C29 happens: with an effective delay of 0 an event was applied while
\* the connection streams, and no timer is pending.
C29_Witness ==
  /\ getEffectiveDelay = 0
  /\ sseRequest.phase = "streaming"
  /\ pending = EmptyBag
  /\ hist.real
  /\ \E chunk \in DataChunks :
       LET events == handleAll(feed(<<>>, chunk).messages, 1) IN
       Len(events) > 0 /\ state = metadataState(events[Len(events)])

\* C30: when a timer fires on a registered channel, a field its event
\* lacks is published as its default: the empty string for the album, the
\* logo for the artwork, 0 for the duration and for the position.
C30_Defaults ==
  [][\A t \in BagToSet(pending) :
       (pending' = pending (-) One(t) /\ hasChannel(currentChannel)) =>
         /\ t.ev.album = "" => state'.album = ""
         /\ t.ev.art = "" => state'.albumart = LOGO
         /\ t.ev.duration = 0 => state'.duration = 0
         /\ t.ev.elapsed = 0 => state'.seek = 0]_vars

\* C30 (amended): when a timer fires on a registered channel, a field its
\* event lacks is published as its default: the quality label of the
\* current tier for the album, the logo for the artwork, 0 for the
\* duration and for the position.
C30_DefaultsQualityLabel ==
  [][\A t \in BagToSet(pending) :
       (pending' = pending (-) One(t) /\ hasChannel(currentChannel)) =>
         /\ t.ev.album = "" => state'.album = getQualityLabel(currentQuality)
         /\ t.ev.art = "" => state'.albumart = LOGO
         /\ t.ev.duration = 0 => state'.duration = 0
         /\ t.ev.elapsed = 0 => state'.seek = 0]_vars

\* C30 happens: an event with a title and nothing else has been applied.
C30_Witness ==
  /\ hist.real
  /\ hasChannel(currentChannel)
  /\ state.title = "T"
  /\ state.album = getQualityLabel(currentQuality)
  /\ state.albumart = LOGO
  /\ state.duration = 0
  /\ state.seek = 0

\* C31: the failure callback of a request that stopSSE() destroyed changes
\* nothing: the attempt counter, the reconnect timers, the referenced
\* request and the toasts are after it what they were before.
C31_LateCallbackNoEffect ==
  [][\A r \in BagToSet(orphanRequests) :
       (r.phase = "destroyed" /\ orphanRequests' = orphanRequests (-) One(r)) =>
         UNCHANGED <<sseReconnectAttempts, sseReconnectTimer, orphanTimers,
                     sseRequest, streak>>]_vars

\* C32: no reconnect timer is armed besides the one sseReconnectTimer
\* references, so that at most one is armed and stopSSE() cancels it.
C32_TimersReferenced ==
  /\ orphanTimers = EmptyBag
  /\ PendingReconnects <= 1

\* C33: when stop() was called while a play's transport sequence was in
\* flight (the state is the stopped one, the connection is torn down and
\* the sequence is still running), the step that settles the sequence
\* leaves the stopped state published.
C33_StopWins ==
  [][(/\ state.status = "stop"
      /\ sseRequest = NoRequest
      /\ ops # EmptyBag
      /\ ops' = EmptyBag) => state'.status = "stop"]_vars

(***************************************************************************)
(* Overlapping calls of play: two transport sequences in flight together,  *)
(* on two registered channels.                                             *)
(***************************************************************************)
MaxOverlap == 2     \* clearAddPlayTrack promise chains in flight together
OverlapOrphans == 1 \* requests alive besides the referenced one
OverlapUris == {serviceUri("jazz", "aac"), serviceUri("radio", "flac192")}
OverlapBounds ==
  [ orph |-> OverlapOrphans, otmr |-> 0, fail |-> SessionFailures, ops |-> MaxOverlap,
    pend |-> 0 ]

NextOverlap ==
  \/ OnStart
  \/ \E uri \in OverlapUris, late \in BOOLEAN : Play(OverlapBounds, uri, late)
  \/ \E late \in BOOLEAN : Resume(OverlapBounds, late)
  \/ \E op \in BagToSet(ops) : MpdOk(op)
  \/ \E op \in BagToSet(ops) : MpdFail(op)
  \/ \E slot \in Slots : OnResponse200(OverlapBounds, slot)
  \/ \E slot \in Slots : OnRequestError(OverlapBounds, slot)
  \/ ReconnectFire(OverlapBounds)

SpecOverlap == Init /\ [][NextOverlap]_vars

\* C34: once every transport sequence has settled, a published playing
\* state is that of the latest request: its uri is the URI on record, its
\* title, album, sample rate and bit depth are those of that URI's channel
\* and tier, and no connection is active but the referenced one, which is
\* to that channel.
C34_LatestPlayWins ==
  (ops = EmptyBag /\ state.status = "play") =>
    /\ state.uri = currentUri
    /\ state.title = channelName(getChannelFromUri(state.uri))
    /\ state.album = getQualityLabel(getQualityFromUri(state.uri))
    /\ state.samplerate = getSampleRate(getQualityFromUri(state.uri))
    /\ state.bitdepth = getBitDepth(getQualityFromUri(state.uri))
    /\ \A r \in BagToSet(orphanRequests) : ~Active(r.phase)
    /\ Active(sseRequest.phase) => sseRequest.chan = currentChannel

(***************************************************************************)
(* The retry loop when no connection attempt succeeds: one startSSE, no    *)
(* stop, and every request ends in failure callbacks.  Node delivers every *)
(* callback that is due and fires every armed timer.                       *)
(***************************************************************************)
RetryOrphans == 11   \* requests alive besides the referenced one
RetryTimers == 10    \* armed reconnect timers nothing references
RetryFailures == 22  \* failure callbacks of one streak
RetryBounds ==
  [ orph |-> RetryOrphans, otmr |-> RetryTimers, fail |-> RetryFailures, ops |-> 0,
    pend |-> 0 ]

\* the one startSSE(channelKey) of the streak
StartOnce(channelKey) ==
  /\ sseRequest = NoRequest
  /\ hasChannel(channelKey)
  /\ StartSSE(RetryBounds, channelKey, FALSE)

NextRetry ==
  \/ OnStart
  \/ \E key \in StartKeys : StartOnce(key)
  \/ \E slot \in Slots : OnResponseNon200(RetryBounds, slot)
  \/ \E slot \in Slots : OnRequestError(RetryBounds, slot)
  \/ \E slot \in Slots : Settle(slot)
  \/ ReconnectFire(RetryBounds)
  \/ \E chan \in BagToSet(orphanTimers) : OrphanReconnectFire(RetryBounds, chan)

SpecRetry == Init /\ [][NextRetry]_vars /\ WF_vars(NextRetry)

\* the retry loop has given up and nothing of it is left
Abandoned ==
  /\ sseReconnectAttempts = SSE_MAX_RECONNECT_ATTEMPTS
  /\ streak.toasts >= 1
  /\ PendingReconnects = 0
  /\ ActiveConnections = 0

\* C35: when no connection attempt succeeds after the one startSSE, the
\* retry loop ends: from some point on the manager has given up, with the
\* counter at the limit and the toast emitted, no reconnect timer is armed
\* and no request is connecting or streaming, and it stays so.
C35_RetryLoopTerminates == <>[]Abandoned

\* C35 happens: the loop has given up after eleven failures of eleven
\* requests, and nothing is left of it.
C35_Witness ==
  /\ Abandoned
  /\ streak.failures = SSE_MAX_RECONNECT_ATTEMPTS + 1
  /\ streak.toasts = 1

\* C36: once the plugin has started, this.metadataDelay is the persisted
\* manual delay, and a persisted delay of 0 with high-latency mode off
\* makes the effective delay 0.
C36_DelayMatchesConfig ==
  started =>
    /\ metadataDelay = config.apiDelay
    /\ (config.apiDelay = 0 /\ ~config.highLatencyMode) => getEffectiveDelay = 0

\* C37: whatever the URI, getChannelFromUri returns a key of the channel
\* registry and getQualityFromUri one of the three tiers, and getStreamUrl
\* called with the two, as clearAddPlayTrack calls it, returns a stream URL.
C37_UriAlwaysResolves ==
  /\ ret.fn = "getChannelFromUri" => ret.value \in ChannelKeys
  /\ ret.fn = "getQualityFromUri" => ret.value \in QualityTiers
  /\ ret.fn # "none" =>
       getStreamUrl(getChannelFromUri(arg.uri), getQualityFromUri(arg.uri))
         \notin {NULL, TypeError}

\* requests that wait for their response, referenced or not
ConnectingRequests ==
  (IF sseRequest.phase = "connecting" THEN 1 ELSE 0)
  + BagCardinality(
      [r \in {x \in BagToSet(orphanRequests) : x.phase = "connecting"} |-> orphanRequests[r]])

\* C38: sseReconnectAttempts stays between 0 and
\* SSE_MAX_RECONNECT_ATTEMPTS, and it is above 0 only while a reconnect
\* timer is armed, a request is waiting for its response, or the manager
\* has given up with the counter at the limit.
C38_AttemptsBounded ==
  /\ sseReconnectAttempts \in 0..SSE_MAX_RECONNECT_ATTEMPTS
  /\ sseReconnectAttempts > 0 =>
       \/ PendingReconnects > 0
       \/ ConnectingRequests > 0
       \/ sseReconnectAttempts = SSE_MAX_RECONNECT_ATTEMPTS /\ streak.toasts >= 1

\* C38 happens: the counter is at the limit and nothing is armed or in
\* flight after the manager has given up.
C38_Witness ==
  /\ sseReconnectAttempts = SSE_MAX_RECONNECT_ATTEMPTS
  /\ streak.toasts >= 1
  /\ PendingReconnects = 0
  /\ ConnectingRequests = 0

\* C39: the step in which the transport rejects a play leaves on record
\* the URI, channel and quality of the last play that succeeded, which are
\* those of the published state (none before the first success), and a
\* resume() replays that URI.
C39_FailedPlayKeepsRecord ==
  [][/\ \A op \in BagToSet(ops) :
          (ops' = ops (-) One(op) /\ result'.outcome = "rejected") =>
            /\ currentUri' = state.uri
            /\ state.status = "play" =>
                 /\ currentChannel' = getChannelFromUri(state.uri)
                 /\ currentQuality' = getQualityFromUri(state.uri)
     /\ (result'.call = "resume" /\ result'.outcome = "pending"
           /\ state.status = "play" /\ ops = EmptyBag) =>
          \A op \in BagToSet(ops') : op.uri = state.uri]_vars

=============================================================================
